---- MODULE Spec2Model ----
(***************************************************************************)
(* Model of the streaming JSON chunker of chunk_large_file.py:             *)
(* LargeJSONChunker.chunk_file drives the byte-boundary scanner            *)
(* (_process_file_streaming), the size-budgeted assembler                  *)
(* (_add_conversation_to_chunk), the chunk writer (_save_chunk) and the    *)
(* summary builder (_generate_summary).                                    *)
(*                                                                         *)
(* Text is a sequence of one-character strings.  A parsed JSON value is    *)
(* represented by its text: the alphabet has no whitespace and no          *)
(* alternative spellings, so two texts denote the same value iff they are  *)
(* equal.  Sizes are scaled: one "MB" is MB bytes and one read block is    *)
(* block_size characters, so that chunk budgets and block boundaries fall  *)
(* inside the small inputs explored.                                       *)
(***************************************************************************)
EXTENDS Integers, Sequences, FiniteSets, TLC

(* ------------------------------ bounds --------------------------------- *)
MaxElems == 3      \* longest source array explored
MaxBlock == 5      \* small read-block sizes explored: 1..MaxBlock
MaxMB    == 2      \* chunk_size_mb ranges over 0..MaxMB
MaxCut   == 2      \* characters cut from the end of a truncated document
MB       == 2      \* bytes per "MB" (scaled 1024 * 1024)
MaxChatters == 5   \* longest ActiveChatters array explored
max_chatters_per_chunk == 2   \* records per chunk (scaled 500)
MaxIjElems == 2    \* longest source array given to the event reconstructor
MaxRuns == 2       \* chunk_file calls in a row on one input
MaxItems == 4      \* longest array given to the simple chunker

(* one read block that holds any explored input whole (scaled 64 * 1024) *)
ReadSize == 64

(* ------------------------------ text ----------------------------------- *)
Min(a, b) == IF a < b THEN a ELSE b

RECURSIVE Flatten(_)
Flatten(ss) == IF ss = <<>> THEN <<>> ELSE Head(ss) \o Flatten(Tail(ss))

RECURSIVE SumLen(_)
SumLen(ss) == IF ss = <<>> THEN 0 ELSE Len(Head(ss)) + SumLen(Tail(ss))

RECURSIVE IsSubseq(_, _)
IsSubseq(a, b) ==
  IF a = <<>> THEN TRUE
  ELSE IF b = <<>> THEN FALSE
  ELSE IF Head(a) = Head(b) THEN IsSubseq(Tail(a), Tail(b))
  ELSE IsSubseq(a, Tail(b))

BoundedSeq(S, n) == UNION {[1..k -> S] : k \in 0..n}

(* ------------------------- source documents ---------------------------- *)
ObjEmpty    == <<"{", "}">>
ObjNested   == <<"{", "\"", "\"", ":", "{", "}", "}">>
ObjCloseStr == <<"{", "\"", "}", "\"", ":", "1", "}">>
ObjOpenStr  == <<"{", "\"", "{", "\"", ":", "1", "}">>
ObjFragStr  == <<"{", "\"", "}", "{", "}", "\"", ":", "1", "}">>
ObjBad      == <<"{", "1", "}">>

Pool == {ObjEmpty, ObjNested, ObjCloseStr, ObjOpenStr, ObjFragStr, ObjBad}

RECURSIVE Join(_)
Join(es) ==
  IF es = <<>> THEN <<>>
  ELSE IF Len(es) = 1 THEN es[1]
  ELSE es[1] \o <<",">> \o Join(Tail(es))

ArrayText(es) == <<"[">> \o Join(es) \o <<"]">>

(* the document text: a top-level array of es, its last c characters cut
   off, or (bare) the elements with no enclosing array *)
DocText(es, bare, c) ==
  IF bare THEN Join(es)
  ELSE SubSeq(ArrayText(es), 1, Len(ArrayText(es)) - c)

(* ---------------------------- json.loads ------------------------------- *)
(* Each Parse operator takes the position of the first character of a
   construct and returns the position after it, or 0 when the text is not
   that construct. *)
RECURSIVE ParseString(_, _)
ParseString(s, j) ==
  IF j > Len(s) THEN 0
  ELSE IF s[j] = "\"" THEN j + 1
  ELSE IF s[j] = "\\" THEN
    IF j + 1 <= Len(s) /\ s[j + 1] \in {"\"", "\\"} THEN ParseString(s, j + 2) ELSE 0
  ELSE ParseString(s, j + 1)

RECURSIVE ParseNumber(_, _)
ParseNumber(s, j) ==
  IF j <= Len(s) /\ s[j] = "1" THEN ParseNumber(s, j + 1) ELSE j

RECURSIVE ParseValue(_, _)
RECURSIVE ParseMembers(_, _)
RECURSIVE ParseItems(_, _)

ParseValue(s, j) ==
  IF j > Len(s) THEN 0
  ELSE IF s[j] = "\"" THEN ParseString(s, j + 1)
  ELSE IF s[j] = "1" THEN ParseNumber(s, j + 1)
  ELSE IF s[j] = "{" THEN
    IF j + 1 <= Len(s) /\ s[j + 1] = "}" THEN j + 2 ELSE ParseMembers(s, j + 1)
  ELSE IF s[j] = "[" THEN
    IF j + 1 <= Len(s) /\ s[j + 1] = "]" THEN j + 2 ELSE ParseItems(s, j + 1)
  ELSE 0

(* "key":value pairs separated by commas, up to and including the brace *)
ParseMembers(s, j) ==
  IF j > Len(s) \/ s[j] # "\"" THEN 0
  ELSE LET k == ParseString(s, j + 1) IN
    IF k = 0 \/ k > Len(s) \/ s[k] # ":" THEN 0
    ELSE LET v == ParseValue(s, k + 1) IN
      IF v = 0 \/ v > Len(s) THEN 0
      ELSE IF s[v] = "}" THEN v + 1
      ELSE IF s[v] = "," THEN ParseMembers(s, v + 1)
      ELSE 0

ParseItems(s, j) ==
  LET v == ParseValue(s, j) IN
    IF v = 0 \/ v > Len(s) THEN 0
    ELSE IF s[v] = "]" THEN v + 1
    ELSE IF s[v] = "," THEN ParseItems(s, v + 1)
    ELSE 0

(* TRUE iff json.loads(s) returns a value; FALSE iff it raises
   JSONDecodeError (also for text left over after the value) *)
JsonLoads(s) == ParseValue(s, 1) = Len(s) + 1

(* ------------------------------ scanner -------------------------------- *)
(* locals of _process_file_streaming before the first read; cands is the
   list of candidate objects the pass delimits, in order, each with the
   outcome of json.loads and its offset in the buffer *)
ScanInit == [bracket_depth |-> 0, in_array |-> FALSE, object_start |-> -1,
             cands |-> <<>>]

(* one iteration of the inner while loop: the character at offset i *)
ScanChar(buffer, i, st) ==
  LET char == buffer[i + 1] IN
  IF char = "[" /\ ~st.in_array THEN
    [st EXCEPT !.in_array = TRUE, !.object_start = i + 1]
  ELSE IF char = "{" /\ st.in_array THEN
    [st EXCEPT !.object_start = IF st.bracket_depth = 0 THEN i ELSE @,
               !.bracket_depth = @ + 1]
  ELSE IF char = "}" /\ st.in_array THEN
    IF st.bracket_depth - 1 = 0 /\ st.object_start # -1 THEN
      LET object_str == SubSeq(buffer, st.object_start + 1, i + 1) IN
      [st EXCEPT !.bracket_depth = 0,
                 !.object_start = -1,
                 !.cands = Append(@, [text |-> object_str,
                                      ok   |-> JsonLoads(object_str),
                                      at   |-> st.object_start])]
    ELSE [st EXCEPT !.bracket_depth = @ - 1]
  ELSE st

(* the inner while loop: i = 0 .. len(buffer) - 1 *)
RECURSIVE ScanFrom(_, _, _)
ScanFrom(buffer, i, st) ==
  IF i >= Len(buffer) THEN st
  ELSE ScanFrom(buffer, i + 1, ScanChar(buffer, i, st))

ScanPass(buffer, st) == ScanFrom(buffer, 0, [st EXCEPT !.cands = <<>>])

(* buffer.rfind('}'): the last offset holding a closing brace, or -1 *)
RECURSIVE RFindBrace(_, _)
RFindBrace(buffer, i) ==
  IF i < 0 THEN -1
  ELSE IF buffer[i + 1] = "}" THEN i
  ELSE RFindBrace(buffer, i - 1)

(* "keep only the unprocessed part of the buffer": the number of leading
   characters dropped after a pass *)
TrimDrop(buffer, st) ==
  IF st.object_start # -1 /\ st.object_start > 0 THEN st.object_start
  ELSE IF st.bracket_depth = 0 /\ st.in_array THEN
    LET last_brace == RFindBrace(buffer, Len(buffer) - 1) IN
    IF last_brace # -1 THEN last_brace + 1 ELSE 0
  ELSE 0

TrimStart(st) ==
  IF st.object_start # -1 /\ st.object_start > 0 THEN 0 ELSE st.object_start

(* ----------------------------- assembler ------------------------------- *)
(* 'sizeMB': round(size / (1024 * 1024), 2), kept in hundredths of a MB;
   round() resolves a tie to the even neighbour *)
SizeMB(size) ==
  LET q == (size * 100) \div MB
      r == (size * 100) % MB
  IN IF 2 * r > MB THEN q + 1
     ELSE IF 2 * r = MB THEN q + (q % 2)
     ELSE q

(* the _save_chunk call and the metadata entry appended next to it *)
SaveChunk(a) ==
  [a EXCEPT !.writes = Append(@, [index |-> a.chunk_index,
                                  data  |-> a.current_chunk,
                                  size  |-> a.current_chunk_size]),
            !.chunks = Append(@, [index         |-> a.chunk_index,
                                  conversations |-> Len(a.current_chunk),
                                  sizeMB        |-> SizeMB(a.current_chunk_size)])]

(* AddConversation that also closes the chunk a record fills exactly *)
AddConversationClosesWhenFull(a, conversation_str, chunk_size_bytes) ==
  LET conversation_size == Len(conversation_str)
      b == IF a.current_chunk_size + conversation_size >= chunk_size_bytes
              /\ Len(a.current_chunk) > 0
           THEN [SaveChunk(a) EXCEPT !.current_chunk = <<>>,
                                     !.current_chunk_size = 0,
                                     !.chunk_index = @ + 1]
           ELSE a
  IN [b EXCEPT !.current_chunk = Append(@, conversation_str),
               !.current_chunk_size = @ + conversation_size,
               !.total_conversations = @ + 1]

(* AddConversation with the incoming record left out of the size test *)
AddConversationIgnoresIncoming(a, conversation_str, chunk_size_bytes) ==
  LET conversation_size == Len(conversation_str)
      b == IF a.current_chunk_size > chunk_size_bytes
              /\ Len(a.current_chunk) > 0
           THEN [SaveChunk(a) EXCEPT !.current_chunk = <<>>,
                                     !.current_chunk_size = 0,
                                     !.chunk_index = @ + 1]
           ELSE a
  IN [b EXCEPT !.current_chunk = Append(@, conversation_str),
               !.current_chunk_size = @ + conversation_size,
               !.total_conversations = @ + 1]

(* AddConversation that starts the new chunk under the old index *)
AddConversationKeepsIndex(a, conversation_str, chunk_size_bytes) ==
  LET conversation_size == Len(conversation_str)
      b == IF a.current_chunk_size + conversation_size > chunk_size_bytes
              /\ Len(a.current_chunk) > 0
           THEN [SaveChunk(a) EXCEPT !.current_chunk = <<>>,
                                     !.current_chunk_size = 0]
           ELSE a
  IN [b EXCEPT !.current_chunk = Append(@, conversation_str),
               !.current_chunk_size = @ + conversation_size,
               !.total_conversations = @ + 1]

(* AddConversation that closes the current chunk even when it is empty *)
AddConversationNoEmptyGuard(a, conversation_str, chunk_size_bytes) ==
  LET conversation_size == Len(conversation_str)
      b == IF a.current_chunk_size + conversation_size > chunk_size_bytes
           THEN [SaveChunk(a) EXCEPT !.current_chunk = <<>>,
                                     !.current_chunk_size = 0,
                                     !.chunk_index = @ + 1]
           ELSE a
  IN [b EXCEPT !.current_chunk = Append(@, conversation_str),
               !.current_chunk_size = @ + conversation_size,
               !.total_conversations = @ + 1]

(* _add_conversation_to_chunk on the assembler fields a, for the record
   whose source text is conversation_str *)
AddConversation(a, conversation_str, chunk_size_bytes) ==
  LET conversation_size == Len(conversation_str)
      b == IF a.current_chunk_size + conversation_size > chunk_size_bytes
              /\ Len(a.current_chunk) > 0
           THEN [SaveChunk(a) EXCEPT !.current_chunk = <<>>,
                                     !.current_chunk_size = 0,
                                     !.chunk_index = @ + 1]
           ELSE a
  IN [b EXCEPT !.current_chunk = Append(@, conversation_str),
               !.current_chunk_size = @ + conversation_size,
               !.total_conversations = @ + 1]

(* the try/except around json.loads and the admit, for the candidates of
   one pass in order: a candidate that fails to parse only prints *)
RECURSIVE AdmitAll(_, _, _)
AdmitAll(a, cands, chunk_size_bytes) ==
  IF cands = <<>> THEN a
  ELSE AdmitAll(IF Head(cands).ok
                THEN AddConversation(a, Head(cands).text, chunk_size_bytes)
                ELSE a,
                Tail(cands), chunk_size_bytes)

(* offsets in the document of the candidates of a pass that were skipped *)
RECURSIVE SkippedAt(_, _)
SkippedAt(cands, base) ==
  IF cands = <<>> THEN <<>>
  ELSE (IF Head(cands).ok THEN <<>> ELSE <<base + Head(cands).at>>)
       \o SkippedAt(Tail(cands), base)

(* ------------------------------- state --------------------------------- *)
VARIABLES
  elems,          \* the elements the source document was built from
  bare,           \* the document has no enclosing array
  cut,            \* characters missing from the end of the document
  input,          \* the text of the input file
  input_exists,   \* input_path.exists()
  block_size,     \* characters returned by one file.read
  chunk_size_mb,  \* configured target chunk size
  pc,             \* position of chunk_file
  pos,            \* file position
  buffer,         \* scanner buffer
  base,           \* offset in the document of buffer[0]
  scan,           \* bracket_depth, in_array, object_start
  asm,            \* current_chunk, current_chunk_size, chunk_index,
                  \* total_conversations, chunks, and the _save_chunk calls
  skips,          \* document offsets of the candidates skipped as malformed
  summary,        \* the written chunking_summary.json, or <<>>
  zj,             \* locals of chunk_zainjo_with_ijson (record-count mode)
  ij,             \* locals of _process_file_with_ijson (event reconstructor)
  prior           \* the earlier chunk_file calls: their _save_chunk calls

vars == <<elems, bare, cut, input, input_exists, block_size, chunk_size_mb,
          pc, pos, buffer, base, scan, asm, skips, summary, zj, ij, prior>>

chunk_size_bytes == chunk_size_mb * MB

AsmInit == [current_chunk |-> <<>>, current_chunk_size |-> 0,
            chunk_index |-> 0, total_conversations |-> 0,
            chunks |-> <<>>, writes |-> <<>>]

BlockSizes == (1..MaxBlock) \cup {ReadSize}

Init ==
  /\ elems \in BoundedSeq(Pool, MaxElems)
  /\ bare \in BOOLEAN
  /\ cut \in 0..MaxCut
  /\ bare => cut = 0
  /\ input = DocText(elems, bare, cut)
  /\ input_exists \in BOOLEAN
  /\ ~input_exists => (elems = <<>> /\ ~bare /\ cut = 0)
  /\ block_size \in BlockSizes
  /\ ~input_exists => block_size = ReadSize
  /\ chunk_size_mb \in 0..MaxMB
  /\ pc = "start"
  /\ pos = 0
  /\ buffer = <<>>
  /\ base = 0
  /\ scan = ScanInit
  /\ asm = AsmInit
  /\ skips = <<>>
  /\ summary = <<>>
  /\ zj = <<>>
  /\ ij = <<>>
  /\ prior = <<>>

(* chunk_file up to the try block: a missing input raises *)
Start ==
  /\ pc = "start"
  /\ pc' = IF input_exists THEN "scan" ELSE "error"
  /\ UNCHANGED <<elems, bare, cut, input, input_exists, block_size,
                 chunk_size_mb, pos, buffer, base, scan, asm, skips, summary, zj, ij, prior>>

(* one iteration of the read loop: read a block, scan the whole buffer
   from offset 0, admit or skip each candidate, trim the buffer *)
ReadBlock ==
  /\ pc = "scan"
  /\ pos < Len(input)
  /\ LET chunk == SubSeq(input, pos + 1, Min(pos + block_size, Len(input)))
         buf   == buffer \o chunk
         st    == ScanPass(buf, scan)
         drop  == TrimDrop(buf, st)
     IN /\ pos' = pos + Len(chunk)
        /\ buffer' = SubSeq(buf, drop + 1, Len(buf))
        /\ base' = base + drop
        /\ scan' = [st EXCEPT !.object_start = TrimStart(st), !.cands = <<>>]
        /\ asm' = AdmitAll(asm, st.cands, chunk_size_bytes)
        /\ skips' = skips \o SkippedAt(st.cands, base)
  /\ UNCHANGED <<elems, bare, cut, input, input_exists, block_size,
                 chunk_size_mb, pc, summary, zj, ij, prior>>

(* file.read returns '' : the loop breaks, whatever the scanner state *)
EndOfInput ==
  /\ pc = "scan"
  /\ pos = Len(input)
  /\ pc' = "flush"
  /\ UNCHANGED <<elems, bare, cut, input, input_exists, block_size,
                 chunk_size_mb, pos, buffer, base, scan, asm, skips, summary, zj, ij, prior>>

(* "Save final chunk": the finalize step on the assembler fields a *)
FinalFlushStep(a) == IF a.current_chunk # <<>> THEN SaveChunk(a) ELSE a

(* the finalize step of chunk_file *)
FinalFlush ==
  /\ pc = "flush"
  /\ asm' = FinalFlushStep(asm)
  /\ pc' = "summary"
  /\ UNCHANGED <<elems, bare, cut, input, input_exists, block_size,
                 chunk_size_mb, pos, buffer, base, scan, skips, summary, zj, ij, prior>>

(* round(a / b) for b > 0: to the nearest integer, a tie to the even one *)
RoundDiv(a, b) ==
  LET q == a \div b
      r == a % b
  IN IF 2 * r < b THEN q
     ELSE IF 2 * r > b THEN q + 1
     ELSE IF q % 2 = 0 THEN q ELSE q + 1

(* SummaryOf that divides by len(chunks) without "if chunks else 0" *)
SummaryOfNoGuard(a, mb) ==
  IF a.chunks = <<>> THEN <<>>
  ELSE <<[totalConversations |-> a.total_conversations,
          totalChunks        |-> Len(a.chunks),
          targetChunkSizeMB  |-> mb,
          chunks             |-> a.chunks,
          averageConversationsPerChunk |->
            RoundDiv(a.total_conversations, Len(a.chunks))]>>

(* the summary dict built by _generate_summary, <<>> if building it raises *)
SummaryOf(a, mb) ==
  <<[totalConversations |-> a.total_conversations,
     totalChunks        |-> Len(a.chunks),
     targetChunkSizeMB  |-> mb,
     chunks             |-> a.chunks,
     averageConversationsPerChunk |->
       IF a.chunks # <<>>
       THEN RoundDiv(a.total_conversations, Len(a.chunks))
       ELSE 0]>>

(* GenerateSummary placed in a finally clause: it also runs after an error *)
GenerateSummaryInFinally ==
  /\ pc \in {"summary", "error"}
  /\ summary = <<>>
  /\ LET s == SummaryOf(asm, chunk_size_mb)
     IN /\ summary' = IF s = <<>> THEN summary ELSE s
        /\ pc' = IF s = <<>> \/ pc = "error" THEN "error" ELSE "done"
  /\ UNCHANGED <<elems, bare, cut, input, input_exists, block_size,
                 chunk_size_mb, pos, buffer, base, scan, asm, skips, zj, ij, prior>>

(* _generate_summary, then chunk_file returns self.chunks *)
GenerateSummary ==
  /\ pc = "summary"
  /\ LET s == SummaryOf(asm, chunk_size_mb)
     IN /\ summary' = IF s = <<>> THEN summary ELSE s
        /\ pc' = IF s = <<>> THEN "error" ELSE "done"
  /\ UNCHANGED <<elems, bare, cut, input, input_exists, block_size,
                 chunk_size_mb, pos, buffer, base, scan, asm, skips, zj, ij, prior>>

Next == Start \/ ReadBlock \/ EndOfInput \/ FinalFlush \/ GenerateSummary

Spec == Init /\ [][Next]_vars

(* ------------------------- derived quantities -------------------------- *)
(* the records of the chunk files, in the order the files were written *)
RECURSIVE ChunkRecords(_)
ChunkRecords(ws) ==
  IF ws = <<>> THEN <<>> ELSE Head(ws).data \o ChunkRecords(Tail(ws))

WrittenRecords == ChunkRecords(asm.writes)

(* every record admitted so far: the final flush writes current_chunk
   without clearing it *)
Admitted ==
  IF pc \in {"summary", "done"} THEN WrittenRecords
  ELSE WrittenRecords \o asm.current_chunk

(* a brace or bracket inside a string literal of s, escapes honoured *)
RECURSIVE StrBraceFrom(_, _, _)
StrBraceFrom(s, j, in_str) ==
  IF j > Len(s) THEN FALSE
  ELSE IF in_str /\ s[j] = "\\" THEN StrBraceFrom(s, j + 2, in_str)
  ELSE IF s[j] = "\"" THEN StrBraceFrom(s, j + 1, ~in_str)
  ELSE IF in_str /\ s[j] \in {"{", "}", "[", "]"} THEN TRUE
  ELSE StrBraceFrom(s, j + 1, in_str)

HasStrBrace(s) == StrBraceFrom(s, 1, FALSE)

(* the document is a complete top-level array *)
ArrayDoc == input_exists /\ ~bare /\ cut = 0

(* ... all of whose elements are JSON objects *)
WellFormedDoc == ArrayDoc /\ \A k \in 1..Len(elems) : JsonLoads(elems[k])

ValidElems == SelectSeq(elems, JsonLoads)

(* offset in an array document of the first character of element k *)
RECURSIVE ElemStart(_)
ElemStart(k) == IF k = 1 THEN 1 ELSE ElemStart(k - 1) + Len(elems[k - 1]) + 1

(* the element that holds document offset off *)
ElemOfOffset(off) ==
  CHOOSE k \in 1..Len(elems) :
    ElemStart(k) <= off /\ off < ElemStart(k) + Len(elems[k])

(* the well-formed elements after element k *)
ValidAfter(k) == SelectSeq(SubSeq(elems, k + 1, Len(elems)), JsonLoads)

(* the records a single pass over the whole text admits *)
RECURSIVE OkTexts(_)
OkTexts(cands) ==
  IF cands = <<>> THEN <<>>
  ELSE (IF Head(cands).ok THEN <<Head(cands).text>> ELSE <<>>)
       \o OkTexts(Tail(cands))

ScanWhole(text) == OkTexts(ScanPass(text, ScanInit).cands)

(* ------------------------------- claims -------------------------------- *)

(* C1: when a run over a well-formed array of objects completes, the record
   counts of the written chunks add up to the number of source elements
   minus the number of candidates skipped as malformed. *)
C1_CountsBalance ==
  (pc = "done" /\ WellFormedDoc)
    => Len(WrittenRecords) = Len(elems) - Len(skips)

(* C2: at the end of a run over a complete array, the records of the
   written chunks, concatenated in chunk order, are exactly the valid
   elements of the source array in source order. *)
C2_RoundTrip ==
  (pc = "done" /\ ArrayDoc) => WrittenRecords = ValidElems

(* C3: with a positive budget, every written chunk has an accumulated
   record size within the budget, except a chunk that holds exactly one
   record whose own size exceeds the budget. *)
C3_ChunkWithinBudget ==
  chunk_size_bytes > 0 =>
    \A k \in 1..Len(asm.writes) :
      LET w == asm.writes[k] IN
        /\ w.size = SumLen(w.data)
        /\ \/ w.size <= chunk_size_bytes
           \/ Len(w.data) = 1 /\ Len(w.data[1]) > chunk_size_bytes

(* a finished run that wrote a chunk of several records within the budget
   and a chunk holding one oversized record *)
C3_Witness ==
  /\ pc = "done"
  /\ chunk_size_bytes > 0
  /\ \E k \in 1..Len(asm.writes) : Len(asm.writes[k].data) >= 2
  /\ \E k \in 1..Len(asm.writes) :
       /\ Len(asm.writes[k].data) = 1
       /\ asm.writes[k].size > chunk_size_bytes

(* C4: the chunks are written under the indices 0..N-1 in the order they
   are closed: the k-th write carries index k-1, so no index is written
   twice, and the metadata list names the same indices. *)
C4_IndicesSequential ==
  /\ Len(asm.chunks) = Len(asm.writes)
  /\ \A k \in 1..Len(asm.writes) :
       /\ asm.writes[k].index = k - 1
       /\ asm.chunks[k].index = k - 1
  /\ pc \in {"summary", "done"} /\ asm.writes # <<>>
       => asm.chunk_index = Len(asm.writes) - 1

(* a finished run that closed chunks mid-run and at the final flush *)
C4_Witness == pc = "done" /\ Len(asm.writes) >= 3

(* C5: whatever the block size, the records written are those written when
   the whole input arrives as one block. *)
C5_BlockIndependent ==
  pc = "done" => WrittenRecords = ScanWhole(input)

(* C6: for a well-formed array whose strings hold braces or brackets, read
   as one block, the scanner emits exactly the source elements and ends at
   depth 0. *)
C6_StringBracesIgnored ==
  (/\ pc = "done"
   /\ WellFormedDoc
   /\ block_size >= Len(input)
   /\ \E k \in 1..Len(elems) : HasStrBrace(elems[k]))
    => (WrittenRecords = elems /\ scan.bracket_depth = 0)

(* C7: a run that reaches end of input with a non-zero depth does not
   complete as a success.  (Read as one block and with no brace inside a
   string, the depth is non-zero only for a truncated document.) *)
C7_TruncatedIsError ==
  (/\ pc = "done"
   /\ block_size >= Len(input)
   /\ \A k \in 1..Len(elems) : ~HasStrBrace(elems[k]))
    => scan.bracket_depth = 0

(* C8: no summary is written for an input in which no top-level array was
   found. *)
C8_NoArrayIsFatal == summary # <<>> => scan.in_array

(* C9: the admitted records are source elements, each taken once and in
   source order: none is a fragment or a merge of elements. *)
C9_RecordsAreElements == IsSubseq(Admitted, elems)

(* C10: after a candidate of a complete array is skipped as malformed, the
   run completes and every well-formed element after the one that held the
   skipped candidate is written to a chunk. *)
C10_SkipThenContinue ==
  (pc = "done" /\ ArrayDoc /\ skips # <<>>)
    => IsSubseq(ValidAfter(ElemOfOffset(skips[1])), WrittenRecords)

(* ---------------- claims on the buffer, depth and counters -------------- *)
(* offset in an array document just past the last character of element k *)
ElemEnd(k) == ElemStart(k) + Len(elems[k])

RECURSIVE MaxLen(_)
MaxLen(ss) ==
  IF ss = <<>> THEN 0
  ELSE LET m == MaxLen(Tail(ss)) IN IF Len(Head(ss)) > m THEN Len(Head(ss)) ELSE m

(* the object-nesting depth of the text after its first n characters,
   braces inside string literals not counted *)
RECURSIVE DepthFrom(_, _, _, _, _)
DepthFrom(s, j, n, in_str, d) ==
  IF j > n THEN d
  ELSE IF in_str /\ s[j] = "\\" THEN DepthFrom(s, j + 2, n, in_str, d)
  ELSE IF s[j] = "\"" THEN DepthFrom(s, j + 1, n, ~in_str, d)
  ELSE IF ~in_str /\ s[j] = "{" THEN DepthFrom(s, j + 1, n, in_str, d + 1)
  ELSE IF ~in_str /\ s[j] = "}" THEN DepthFrom(s, j + 1, n, in_str, d - 1)
  ELSE DepthFrom(s, j + 1, n, in_str, d)

TrueDepth(s, n) == DepthFrom(s, 1, n, FALSE, 0)

RECURSIVE SumConversations(_)
SumConversations(cs) ==
  IF cs = <<>> THEN 0 ELSE Head(cs).conversations + SumConversations(Tail(cs))

(* the count of skipped records a summary reports, -1 when it has none *)
SkippedReported(s) ==
  IF "skippedRecords" \in DOMAIN s THEN s.skippedRecords ELSE -1

(* C11: after every pass over a well-formed array the buffer holds no
   character of an element that has been read to its end, starts at the
   first character of the element the read position is inside, and is no
   longer than the largest element plus one read block. *)
C11_BufferBounded ==
  (WellFormedDoc /\ pc = "scan")
    => /\ \A k \in 1..Len(elems) :
            /\ ElemEnd(k) <= pos => base >= ElemEnd(k)
            /\ (ElemStart(k) < pos /\ pos < ElemEnd(k)) => base = ElemStart(k)
       /\ Len(buffer) <= MaxLen(elems) + block_size

(* C12: for a well-formed array and any block size, after every pass the
   depth counter is not negative and equals the object-nesting depth of
   the source at the read position. *)
C12_DepthIsNesting ==
  WellFormedDoc
    => /\ scan.bracket_depth >= 0
       /\ scan.bracket_depth = TrueDepth(input, pos)

(* C13: every written chunk holds at least one record, and its metadata
   entry says so, whatever the budget. *)
C13_NoEmptyChunk ==
  \A k \in 1..Len(asm.writes) :
    /\ Len(asm.writes[k].data) >= 1
    /\ asm.chunks[k].conversations >= 1

(* a finished run whose first record alone exceeded the budget and that
   went on to write further chunks *)
C13_Witness ==
  /\ pc = "done"
  /\ Len(asm.writes) >= 2
  /\ Len(asm.writes[1].data[1]) > chunk_size_bytes

(* C14: once the finalize step has run, running it again on the same
   assembler state writes no chunk and appends no metadata. *)
C14_FinalizeIdempotent ==
  pc = "summary" => FinalFlushStep(asm) = asm

(* C19: the processed-records counter is the record count of the closed
   chunks plus the length of current_chunk, current_chunk_size is the size
   of the records in current_chunk, and the total in the summary is the
   number of records in written chunks. *)
C19_CounterAccounts ==
  /\ asm.total_conversations
       = SumConversations(asm.chunks) + Len(asm.current_chunk)
  /\ asm.current_chunk_size = SumLen(asm.current_chunk)
  /\ summary # <<>> => summary[1].totalConversations = Len(WrittenRecords)

(* C20: the summary of a run that skipped candidates as malformed carries
   the number of skipped candidates. *)
C20_SkipsReported ==
  (summary # <<>> /\ skips # <<>>)
    => SkippedReported(summary[1]) = Len(skips)

(* ------------------------ record-count mode ---------------------------- *)
(* chunk_zainjo_with_ijson (chunk-zainjo-ijson.py); chunk_zainjo_file
   (chunk-zainjo-python.py) runs the same loop over a loaded list.  A
   chatter is [id, SenderID, ChatHistory], the two fields holding the
   truthiness of chatter.get(...). *)

(* the variables of LargeJSONChunker.chunk_file other than pc *)
chunkerVars == <<elems, bare, cut, input, input_exists, block_size,
                 chunk_size_mb, pos, buffer, base, scan, asm, skips, summary>>

(* no LargeJSONChunker run is under way *)
ChunkerIdle ==
  /\ elems = <<>> /\ bare = FALSE /\ cut = 0 /\ input = <<>>
  /\ input_exists = TRUE /\ block_size = ReadSize /\ chunk_size_mb = 0
  /\ pos = 0 /\ buffer = <<>> /\ base = 0 /\ scan = ScanInit
  /\ asm = AsmInit /\ skips = <<>> /\ summary = <<>>

ChatterKinds == {"ok", "noSender", "noHistory"}

Chatters(kinds) ==
  [k \in 1..Len(kinds) |-> [id          |-> k,
                            SenderID    |-> kinds[k] # "noSender",
                            ChatHistory |-> kinds[k] # "noHistory"]]

ZjInit(chatters) ==
  [chatters |-> chatters, next |-> 1,
   current_chunk |-> 0, chatters_processed |-> 0, current_chunk_data |-> <<>>,
   saves |-> <<>>, summary |-> <<>>]

(* save_chunk(output_dir, current_chunk, current_chunk_data) *)
ZjSaveChunk(z) ==
  [z EXCEPT !.saves = Append(@, [chunkNumber   |-> z.current_chunk,
                                 totalChatters |-> Len(z.current_chunk_data),
                                 chatters      |-> z.current_chunk_data])]

(* ZjAccept that saves only once the chunk is over the maximum *)
ZjAcceptLate(z, chatter) ==
  IF chatter.SenderID /\ chatter.ChatHistory THEN
    LET z1 == [z EXCEPT !.current_chunk_data = Append(@, chatter),
                        !.chatters_processed = @ + 1]
    IN IF Len(z1.current_chunk_data) > max_chatters_per_chunk
       THEN [ZjSaveChunk(z1) EXCEPT !.current_chunk = @ + 1,
                                    !.current_chunk_data = <<>>]
       ELSE z1
  ELSE z

(* the body of the for loop, for one chatter *)
ZjAccept(z, chatter) ==
  IF chatter.SenderID /\ chatter.ChatHistory THEN
    LET z1 == [z EXCEPT !.current_chunk_data = Append(@, chatter),
                        !.chatters_processed = @ + 1]
    IN IF Len(z1.current_chunk_data) >= max_chatters_per_chunk
       THEN [ZjSaveChunk(z1) EXCEPT !.current_chunk = @ + 1,
                                    !.current_chunk_data = <<>>]
       ELSE z1
  ELSE z

InitZainjo ==
  /\ ChunkerIdle
  /\ pc = "zj_loop"
  /\ \E kinds \in BoundedSeq(ChatterKinds, MaxChatters) :
       zj = ZjInit(Chatters(kinds))
  /\ ij = <<>>
  /\ prior = <<>>

(* one iteration of "for chatter in parser" *)
ZjChatter ==
  /\ pc = "zj_loop"
  /\ zj.next <= Len(zj.chatters)
  /\ zj' = [ZjAccept(zj, zj.chatters[zj.next]) EXCEPT !.next = @ + 1]
  /\ UNCHANGED <<chunkerVars, pc, ij, prior>>

(* the parser is exhausted: "Save remaining data" *)
ZjRemaining ==
  /\ pc = "zj_loop"
  /\ zj.next > Len(zj.chatters)
  /\ zj' = IF zj.current_chunk_data # <<>>
           THEN [ZjSaveChunk(zj) EXCEPT !.current_chunk = @ + 1]
           ELSE zj
  /\ pc' = "zj_summary"
  /\ UNCHANGED <<chunkerVars, ij, prior>>

(* "Create summary file", then return True *)
ZjSummary ==
  /\ pc = "zj_summary"
  /\ zj' = [zj EXCEPT !.summary =
              <<[totalChatters       |-> zj.chatters_processed,
                 totalChunks         |-> zj.current_chunk,
                 maxChattersPerChunk |-> max_chatters_per_chunk]>>]
  /\ pc' = "zj_done"
  /\ UNCHANGED <<chunkerVars, ij, prior>>

NextZainjo == ZjChatter \/ ZjRemaining \/ ZjSummary

SpecZainjo == InitZainjo /\ [][NextZainjo]_vars

RECURSIVE SumChatters(_)
SumChatters(saves) ==
  IF saves = <<>> THEN 0 ELSE Head(saves).totalChatters + SumChatters(Tail(saves))

(* C18: in record-count mode every written chunk holds between 1 and
   max_chatters_per_chunk records, every chunk but the last holds exactly
   the maximum, the chunk numbers are 0..N-1 in writing order, and the
   processed total at the end of the loop, also as reported in the
   summary, is the sum of the chunk record counts. *)
C18_CountMode ==
  LET N == Len(zj.saves) IN
  /\ \A k \in 1..N :
       /\ zj.saves[k].chunkNumber = k - 1
       /\ zj.saves[k].totalChatters = Len(zj.saves[k].chatters)
       /\ Len(zj.saves[k].chatters) >= 1
       /\ Len(zj.saves[k].chatters) <= max_chatters_per_chunk
       /\ k < N => Len(zj.saves[k].chatters) = max_chatters_per_chunk
  /\ pc \in {"zj_summary", "zj_done"} =>
       zj.chatters_processed = SumChatters(zj.saves)
  /\ zj.summary # <<>> =>
       /\ zj.summary[1].totalChatters = SumChatters(zj.saves)
       /\ zj.summary[1].totalChunks = N

(* a finished run with a rejected chatter, full chunks and a shorter last
   chunk *)
C18_Witness ==
  /\ pc = "zj_done"
  /\ Len(zj.saves) >= 2
  /\ Len(zj.saves[Len(zj.saves)].chatters) < max_chatters_per_chunk
  /\ zj.chatters_processed < Len(zj.chatters)

(* ------------------------ event reconstructor -------------------------- *)
(* LargeJSONChunkerIjson (chunk_large_file_ijson.py).  A JSON value is a
   record [t, n, kv]: t is "null", "num", "map" or "list", n the number,
   kv the entries [k, v] of a map in insertion order or of a list (k = "").
   A prefix or path is the sequence of its dot-separated segments. *)
Null       == [t |-> "null", n |-> 0, kv |-> <<>>]
Num(x)     == [t |-> "num",  n |-> x, kv |-> <<>>]
MapOf(kv)  == [t |-> "map",  n |-> 0, kv |-> kv]
ListOf(kv) == [t |-> "list", n |-> 0, kv |-> kv]
EmptyMap   == MapOf(<<>>)
EmptyList  == ListOf(<<>>)
Item(v)    == [k |-> "", v |-> v]

(* str.isdigit() and int() on the segments explored *)
IsDigit(seg) == seg \in {"0", "1", "2"}
IntOf(seg) == IF seg = "0" THEN 0 ELSE IF seg = "1" THEN 1 ELSE 2

(* key in current, current[key], current[key] = v on a dict *)
HasKey(kv, key) == \E j \in 1..Len(kv) : kv[j].k = key
GetKey(kv, key) == kv[CHOOSE j \in 1..Len(kv) : kv[j].k = key].v
SetKey(kv, key, v) ==
  IF HasKey(kv, key)
  THEN [j \in 1..Len(kv) |-> IF kv[j].k = key THEN [k |-> key, v |-> v] ELSE kv[j]]
  ELSE Append(kv, [k |-> key, v |-> v])

(* while len(current) <= n: current.append(fill) *)
RECURSIVE Pad(_, _, _)
Pad(kv, n, fill) == IF Len(kv) <= n THEN Pad(Append(kv, Item(fill)), n, fill) ELSE kv

(* _set_nested_value from the container cur on: the container after the
   call, and whether the call raised (a str key applied to a list or to a
   scalar raises TypeError) *)
RECURSIVE SetFrom(_, _, _)
SetFrom(cur, keys, value) ==
  LET key == Head(keys) IN
  IF Len(keys) > 1 THEN
    IF IsDigit(key) THEN
      IF cur.t # "list" THEN [err |-> FALSE, obj |-> cur]
      ELSE LET kv == Pad(cur.kv, IntOf(key), EmptyMap)
               r  == SetFrom(kv[IntOf(key) + 1].v, Tail(keys), value)
           IN [err |-> r.err,
               obj |-> ListOf([kv EXCEPT ![IntOf(key) + 1] = Item(r.obj)])]
    ELSE
      IF cur.t # "map" THEN [err |-> TRUE, obj |-> cur]
      ELSE LET kv == IF HasKey(cur.kv, key) THEN cur.kv
                     ELSE SetKey(cur.kv, key, EmptyMap)
               r  == SetFrom(GetKey(kv, key), Tail(keys), value)
           IN [err |-> r.err, obj |-> MapOf(SetKey(kv, key, r.obj))]
  ELSE
    IF IsDigit(key) THEN
      IF cur.t = "list"
      THEN LET kv == Pad(cur.kv, IntOf(key), Null)
           IN [err |-> FALSE,
               obj |-> ListOf([kv EXCEPT ![IntOf(key) + 1] = Item(value)])]
      ELSE [err |-> FALSE, obj |-> cur]
    ELSE
      IF cur.t = "map"
      THEN [err |-> FALSE, obj |-> MapOf(SetKey(cur.kv, key, value))]
      ELSE [err |-> TRUE, obj |-> cur]

(* _set_nested_value(obj, path, value) *)
SetNestedValue(obj, path, value) ==
  IF path = <<>> THEN [err |-> FALSE, obj |-> obj]
  ELSE SetFrom(obj, path, value)

(* prefix.replace('item.', ''): every segment "item" that another segment
   follows is removed *)
RECURSIVE ReplaceItem(_)
ReplaceItem(prefix) ==
  IF prefix = <<>> THEN <<>>
  ELSE IF Head(prefix) = "item" /\ Len(prefix) > 1 THEN ReplaceItem(Tail(prefix))
  ELSE <<Head(prefix)>> \o ReplaceItem(Tail(prefix))

(* _build_object_from_ijson_event *)
BuildObject(obj, prefix, event, value) ==
  IF prefix = <<>> \/ (Head(prefix) = "item" /\ Len(prefix) > 1) THEN
    LET path == IF prefix # <<>> THEN ReplaceItem(prefix) ELSE prefix IN
    IF event \in {"string", "number", "boolean", "null"}
      THEN SetNestedValue(obj, path, value)
    ELSE IF event = "start_map" /\ path # <<>>
      THEN SetNestedValue(obj, path, EmptyMap)
    ELSE IF event = "start_array" /\ path # <<>>
      THEN SetNestedValue(obj, path, EmptyList)
    ELSE [err |-> FALSE, obj |-> obj]
  ELSE [err |-> FALSE, obj |-> obj]

(* json.dumps(conversation, ensure_ascii=False), separators ", " and ": " *)
KeyChars(key) == IF key = "item" THEN <<"i", "t", "e", "m">> ELSE <<key>>

RECURSIVE Dumps(_)
RECURSIVE DumpEntries(_, _)
Dumps(v) ==
  IF v.t = "null" THEN <<"n", "u", "l", "l">>
  ELSE IF v.t = "num" THEN <<ToString(v.n)>>
  ELSE IF v.t = "map" THEN <<"{">> \o DumpEntries(v.kv, TRUE) \o <<"}">>
  ELSE <<"[">> \o DumpEntries(v.kv, FALSE) \o <<"]">>

DumpEntries(kv, keyed) ==
  IF kv = <<>> THEN <<>>
  ELSE (IF keyed
        THEN <<"\"">> \o KeyChars(Head(kv).k) \o <<"\"", ":", " ">>
        ELSE <<>>)
       \o Dumps(Head(kv).v)
       \o (IF Len(kv) > 1 THEN <<",", " ">> ELSE <<>>)
       \o DumpEntries(Tail(kv), keyed)

(* ------------------------- source objects ------------------------------ *)
(* An entry of a source object is [k, v] with k the segments of its key:
   the key "a.1" has the segments "a", "1". *)
Ent(k, v) == [k |-> k, v |-> v]

SrcEmpty    == MapOf(<<>>)
SrcFlat     == MapOf(<<Ent(<<"a">>, Num(1))>>)
SrcNested   == MapOf(<<Ent(<<"a">>, MapOf(<<Ent(<<"b">>, Num(1))>>))>>)
SrcNumKey   == MapOf(<<Ent(<<"a">>, Num(1)), Ent(<<"0">>, Num(1))>>)
SrcNumMid   == MapOf(<<Ent(<<"a">>,
                 MapOf(<<Ent(<<"0">>, MapOf(<<Ent(<<"b">>, Num(1))>>))>>))>>)
SrcEmptyArr == MapOf(<<Ent(<<"a">>, EmptyList)>>)
SrcArr      == MapOf(<<Ent(<<"a">>, ListOf(<<Ent(<<>>, Num(1))>>))>>)
SrcDotFinal == MapOf(<<Ent(<<"a">>, EmptyList), Ent(<<"a", "1">>, Num(1))>>)
SrcDotMid   == MapOf(<<Ent(<<"a">>, EmptyList), Ent(<<"a", "1", "b">>, Num(1))>>)
SrcDotGrow  == MapOf(<<Ent(<<"a">>, EmptyList), Ent(<<"a", "0">>, Num(1)),
                       Ent(<<"a", "2">>, Num(1))>>)

SrcPool == {SrcEmpty, SrcFlat, SrcNested, SrcNumKey, SrcNumMid, SrcEmptyArr,
            SrcArr, SrcDotFinal, SrcDotMid, SrcDotGrow}

(* the (prefix, event, value) triples ijson.parse yields for the value v
   found under prefix *)
Ev(prefix, event, value) == [prefix |-> prefix, event |-> event, value |-> value]

RECURSIVE Events(_, _)
RECURSIVE EntryEvents(_, _, _)
Events(v, prefix) ==
  IF v.t = "null" THEN <<Ev(prefix, "null", Null)>>
  ELSE IF v.t = "num" THEN <<Ev(prefix, "number", v)>>
  ELSE IF v.t = "map" THEN
    <<Ev(prefix, "start_map", Null)>> \o EntryEvents(v.kv, prefix, TRUE)
      \o <<Ev(prefix, "end_map", Null)>>
  ELSE
    <<Ev(prefix, "start_array", Null)>> \o EntryEvents(v.kv, prefix, FALSE)
      \o <<Ev(prefix, "end_array", Null)>>

EntryEvents(kv, prefix, keyed) ==
  IF kv = <<>> THEN <<>>
  ELSE (IF keyed
        THEN <<Ev(prefix, "map_key", Null)>>
               \o Events(Head(kv).v, prefix \o Head(kv).k)
        ELSE Events(Head(kv).v, prefix \o <<"item">>))
       \o EntryEvents(Tail(kv), prefix, keyed)

(* the events of a document that is an array of the objects srcs *)
DocEvents(srcs) ==
  Events(ListOf([j \in 1..Len(srcs) |-> Ent(<<>>, srcs[j])]), <<>>)

(* ------------------------ reconstructor run ---------------------------- *)
(* locals of _process_file_with_ijson; emitted lists the objects handed to
   _add_conversation_to_chunk, last the event handled last with the
   object as it was before *)
IjInit(srcs) ==
  [srcs |-> srcs, events |-> DocEvents(srcs), next |-> 1,
   in_array |-> FALSE, current_object |-> EmptyMap,
   emitted |-> <<>>, last |-> <<>>]

InitIjson ==
  /\ elems = <<>> /\ bare = FALSE /\ cut = 0 /\ input = <<>>
  /\ input_exists = TRUE /\ block_size = ReadSize
  /\ chunk_size_mb \in 0..MaxMB
  /\ pos = 0 /\ buffer = <<>> /\ base = 0 /\ scan = ScanInit
  /\ asm = AsmInit /\ skips = <<>> /\ summary = <<>>
  /\ zj = <<>>
  /\ prior = <<>>
  /\ pc = "ij_parse"
  /\ \E srcs \in BoundedSeq(SrcPool, MaxIjElems) : ij = IjInit(srcs)

(* count('.') == 0 on a prefix *)
NoDot(prefix) == Len(prefix) <= 1

(* one iteration of "for prefix, event, value in parser" *)
IjEvent ==
  /\ pc = "ij_parse"
  /\ ij.next <= Len(ij.events)
  /\ LET e  == ij.events[ij.next]
         st == [ij EXCEPT !.next = @ + 1,
                          !.last = <<[prefix |-> e.prefix, event |-> e.event,
                                      value  |-> e.value,
                                      before |-> ij.current_object]>>]
     IN
     IF e.prefix = <<>> /\ e.event = "start_array" THEN
       /\ ij' = [st EXCEPT !.in_array = TRUE]
       /\ UNCHANGED <<asm, pc>>
     ELSE IF e.prefix = <<>> /\ e.event = "end_array" THEN
       /\ ij' = st
       /\ pc' = "flush"
       /\ UNCHANGED asm
     ELSE IF ij.in_array /\ e.event = "start_map" /\ NoDot(e.prefix) THEN
       /\ ij' = [st EXCEPT !.current_object = EmptyMap]
       /\ UNCHANGED <<asm, pc>>
     ELSE IF ij.in_array /\ e.event = "end_map" /\ NoDot(e.prefix) THEN
       /\ ij' = [st EXCEPT !.current_object = EmptyMap,
                           !.emitted = IF ij.current_object.kv # <<>>
                                       THEN Append(@, ij.current_object)
                                       ELSE @]
       /\ asm' = IF ij.current_object.kv # <<>>
                 THEN AddConversation(asm, Dumps(ij.current_object),
                                      chunk_size_bytes)
                 ELSE asm
       /\ UNCHANGED pc
     ELSE IF ij.in_array THEN
       LET r == BuildObject(ij.current_object, e.prefix, e.event, e.value) IN
       /\ ij' = [st EXCEPT !.current_object = r.obj]
       /\ pc' = IF r.err THEN "error" ELSE pc
       /\ UNCHANGED asm
     ELSE
       /\ ij' = st
       /\ UNCHANGED <<asm, pc>>
  /\ UNCHANGED <<elems, bare, cut, input, input_exists, block_size,
                 chunk_size_mb, pos, buffer, base, scan, skips, summary, zj, prior>>

(* the step at hand calls _save_chunk *)
SavesNext ==
  \/ pc = "flush" /\ asm.current_chunk # <<>>
  \/ /\ pc = "ij_parse"
     /\ ij.next <= Len(ij.events)
     /\ ij.in_array
     /\ ij.events[ij.next].event = "end_map"
     /\ ij.events[ij.next].prefix # <<>>
     /\ NoDot(ij.events[ij.next].prefix)
     /\ ij.current_object.kv # <<>>
     /\ asm.current_chunk # <<>>
     /\ asm.current_chunk_size + Len(Dumps(ij.current_object)) > chunk_size_bytes

(* open() or json.dump in _save_chunk raises: the exception leaves the try
   block of chunk_file through "except Exception: ... raise" *)
SaveChunkFails ==
  /\ SavesNext
  /\ pc' = "error"
  /\ UNCHANGED <<elems, bare, cut, input, input_exists, block_size,
                 chunk_size_mb, pos, buffer, base, scan, asm, skips, summary,
                 zj, ij, prior>>

NextIjson == IjEvent \/ SaveChunkFails \/ FinalFlush \/ GenerateSummary

SpecIjson == InitIjson /\ [][NextIjson]_vars

(* ----------------------- reconstructor claims -------------------------- *)
(* the value found in obj by following path: a numeric segment indexes a
   list, any other segment a map key; <<>> when the path leads nowhere *)
RECURSIVE Lookup(_, _)
Lookup(obj, path) ==
  IF path = <<>> THEN <<obj>>
  ELSE LET key == Head(path) IN
       IF IsDigit(key)
       THEN IF obj.t = "list" /\ Len(obj.kv) > IntOf(key)
            THEN Lookup(obj.kv[IntOf(key) + 1].v, Tail(path))
            ELSE <<>>
       ELSE IF obj.t = "map" /\ HasKey(obj.kv, key)
            THEN Lookup(GetKey(obj.kv, key), Tail(path))
            ELSE <<>>

(* the event handled last closed a top-level element *)
LastClosedTop ==
  /\ ij.last # <<>>
  /\ ij.last[1].event = "end_map"
  /\ NoDot(ij.last[1].prefix)
  /\ ij.last[1].prefix # <<>>

(* the event handled last was a scalar or enter-container event with a
   non-empty path relative to the top-level element, and it did not raise *)
LastSetsPath ==
  /\ ij.last # <<>>
  /\ pc # "error"
  /\ ij.last[1].event \in {"number", "null", "start_map", "start_array"}
  /\ Len(ij.last[1].prefix) > 1
  /\ Head(ij.last[1].prefix) = "item"

LastPath == Tail(ij.last[1].prefix)

LastValue ==
  IF ij.last[1].event = "start_map" THEN EmptyMap
  ELSE IF ij.last[1].event = "start_array" THEN EmptyList
  ELSE ij.last[1].value

(* C15: every exit-object event closing a top-level element emits the
   container built since the matching enter-object as one record and
   resets the container, an object without fields included; when the
   parse has ended the number of emitted records is the number of
   top-level objects. *)
C15_OneRecordPerObject ==
  /\ LastClosedTop =>
       /\ ij.emitted # <<>>
       /\ ij.emitted[Len(ij.emitted)] = ij.last[1].before
       /\ ij.current_object = EmptyMap
  /\ pc \in {"flush", "summary", "done"} => Len(ij.emitted) = Len(ij.srcs)

(* C16: after a scalar or enter-container event with the non-empty relative
   path p and the value v the record in progress holds v at p, numeric
   segments addressing list indices and the others map keys; no such event
   leaves the record without v at p, a numeric segment met on a map
   included. *)
C16_ValueHeldAtPath ==
  LastSetsPath => Lookup(ij.current_object, LastPath) = <<LastValue>>

(* C17: when the path reaches a numeric segment k on a list shorter than
   k+1, the list afterwards has length k+1, its former elements are where
   they were, and every new position other than k is null, for an
   intermediate and for the final segment. *)
C17_GapsAreNull ==
  LastSetsPath =>
    \A j \in 1..Len(LastPath) :
      LET k == IntOf(LastPath[j])
          b == Lookup(ij.last[1].before, SubSeq(LastPath, 1, j - 1))
          a == Lookup(ij.current_object, SubSeq(LastPath, 1, j - 1))
      IN (/\ IsDigit(LastPath[j])
          /\ b # <<>>
          /\ b[1].t = "list"
          /\ Len(b[1].kv) < k + 1)
         => /\ a # <<>>
            /\ a[1].t = "list"
            /\ Len(a[1].kv) = k + 1
            /\ \A i \in 1..Len(b[1].kv) : a[1].kv[i] = b[1].kv[i]
            /\ \A i \in (Len(b[1].kv) + 1)..k : a[1].kv[i].v = Null

(* ------------------------- run-level claims ---------------------------- *)
(* the run is configured with a non-positive budget or a missing input *)
BadConfig == chunk_size_mb <= 0 \/ ~input_exists

(* C21: a run with a non-positive size budget or with a missing input path
   fails before any processing: nothing is read, no record is admitted, no
   chunk and no summary is written, and the run does not reach its end. *)
C21_ConfigErrorIsFatal ==
  BadConfig =>
    /\ pos = 0
    /\ asm.total_conversations = 0
    /\ asm.writes = <<>>
    /\ summary = <<>>
    /\ pc \notin {"flush", "summary", "done"}

(* the input is the array without elements *)
EmptyArrayInput == input_exists /\ elems = <<>> /\ ~bare /\ cut = 0

(* C22: on an input array without elements no chunk is written, the run
   does not fail and is never stuck before its end, and the summary it
   writes reports zero records and zero chunks. *)
C22_EmptyArray ==
  EmptyArrayInput =>
    /\ pc # "error"
    /\ asm.writes = <<>>
    /\ pc # "done" => ENABLED Next
    /\ pc = "done" =>
         /\ summary # <<>>
         /\ summary[1].totalConversations = 0
         /\ summary[1].totalChunks = 0
         /\ summary[1].chunks = <<>>

(* the run on the empty array has ended with its summary written *)
C22_Witness ==
  /\ EmptyArrayInput
  /\ pc = "done"
  /\ summary # <<>>
  /\ summary[1].averageConversationsPerChunk = 0

(* --------------------------- repeated runs ----------------------------- *)
(* A further chunk_file call on the same input and configuration, either
   on the chunker that has completed the earlier call, whose fields are as
   that call left them, or on a newly constructed chunker.  The locals of
   _process_file_streaming start anew; prior keeps the _save_chunk calls
   of the earlier call. *)
ChunkFileAgain ==
  /\ pc = "done"
  /\ Len(prior) < MaxRuns - 1
  /\ \E fresh \in BOOLEAN :
       /\ prior' = Append(prior, [writes |-> asm.writes, fresh |-> fresh])
       /\ asm' = IF fresh THEN AsmInit ELSE [asm EXCEPT !.writes = <<>>]
  /\ pc' = "start"
  /\ pos' = 0
  /\ buffer' = <<>>
  /\ base' = 0
  /\ scan' = ScanInit
  /\ skips' = <<>>
  /\ UNCHANGED <<elems, bare, cut, input, input_exists, block_size,
                 chunk_size_mb, summary, zj, ij>>

NextRerun == Next \/ ChunkFileAgain

SpecRerun == Init /\ [][NextRerun]_vars

(* the chunk files a sequence of _save_chunk calls writes: index and
   records of each *)
FilesOf(ws) == [k \in 1..Len(ws) |-> [index |-> ws[k].index, data |-> ws[k].data]]

(* C23: a second run on the same input and configuration, a second
   chunk_file call on a chunker that has completed one run included,
   writes the same chunk files as the run before it: as many chunks, the
   same indices, the same records in each. *)
C23_RerunSameChunks ==
  (pc = "done" /\ prior # <<>>) =>
    FilesOf(asm.writes) = FilesOf(prior[Len(prior)].writes)

(* ------------------------ equal-sized records -------------------------- *)
(* the source is a complete array of one or more copies of one object
   without braces in its strings, and the budget holds at least one *)
UniformDoc ==
  /\ WellFormedDoc
  /\ elems # <<>>
  /\ \A k \in 1..Len(elems) : elems[k] = elems[1]
  /\ ~HasStrBrace(elems[1])
  /\ chunk_size_bytes >= Len(elems[1])

(* the number of such objects the budget holds *)
PerChunk == chunk_size_bytes \div Len(elems[1])

(* C24: for a source array of equal-sized objects (1200 of 1KB in the
   scenario) a finished run has written every object; with a budget no
   smaller than their total size (100MB) they are in a single chunk; with
   a smaller budget (500KB) every chunk holds at most the number of
   objects the budget holds (500), every chunk but the last holds exactly
   that many and the last holds the remainder. *)
C24_EqualRecordsScenario ==
  (pc = "done" /\ UniformDoc) =>
    /\ WrittenRecords = elems
    /\ chunk_size_bytes >= SumLen(elems) => Len(asm.writes) = 1
    /\ \A k \in 1..Len(asm.writes) :
         /\ Len(asm.writes[k].data) <= PerChunk
         /\ k < Len(asm.writes) => Len(asm.writes[k].data) = PerChunk

(* --------------------------- simple chunker ---------------------------- *)
(* SimpleIjsonChunker.chunk_file_simple: ijson.items yields the elements
   of the array one by one and the loop body is the size-budgeted
   assembler on the locals current_chunk, current_chunk_size, chunk_index,
   total_conversations and chunks, held in asm.  elems holds the elements
   as values, pos the number of them taken; a record is kept by its
   json.dumps text. *)
ItemPool == {Num(1), EmptyMap, Null, MapOf(<<[k |-> "a", v |-> Num(1)]>>)}

InitSimple ==
  /\ elems \in BoundedSeq(ItemPool, MaxItems)
  /\ bare = FALSE /\ cut = 0 /\ input = <<>>
  /\ input_exists = TRUE /\ block_size = ReadSize
  /\ chunk_size_mb \in 0..MaxMB
  /\ pos = 0 /\ buffer = <<>> /\ base = 0 /\ scan = ScanInit
  /\ asm = AsmInit /\ skips = <<>> /\ summary = <<>>
  /\ zj = <<>> /\ ij = <<>> /\ prior = <<>>
  /\ pc = "simple_loop"

(* one iteration of "for conversation in conversations" *)
SimpleItem ==
  /\ pc = "simple_loop"
  /\ pos < Len(elems)
  /\ asm' = AddConversation(asm, Dumps(elems[pos + 1]), chunk_size_bytes)
  /\ pos' = pos + 1
  /\ UNCHANGED <<elems, bare, cut, input, input_exists, block_size,
                 chunk_size_mb, pc, buffer, base, scan, skips, summary,
                 zj, ij, prior>>

(* the iterator is exhausted *)
SimpleEnd ==
  /\ pc = "simple_loop"
  /\ pos = Len(elems)
  /\ pc' = "flush"
  /\ UNCHANGED <<elems, bare, cut, input, input_exists, block_size,
                 chunk_size_mb, pos, buffer, base, scan, asm, skips,
                 summary, zj, ij, prior>>

NextSimple == SimpleItem \/ SimpleEnd \/ FinalFlush \/ GenerateSummary

SpecSimple == InitSimple /\ [][NextSimple]_vars

(* the records handed to the assembler so far, as json.dumps texts *)
Taken == [k \in 1..pos |-> Dumps(elems[k])]

(* C25: with a positive budget a record larger than the budget is the only
   record of its chunk wherever it occurs, in a written chunk as in the
   chunk in progress, so the records before it are in an earlier chunk
   and the record after it in a later one; a run over exactly one such
   record ends with exactly one chunk, holding it. *)
C25_OversizedAlone ==
  chunk_size_bytes > 0 =>
    /\ \A k \in 1..Len(asm.writes) :
         \A j \in 1..Len(asm.writes[k].data) :
           Len(asm.writes[k].data[j]) > chunk_size_bytes
             => Len(asm.writes[k].data) = 1
    /\ \A j \in 1..Len(asm.current_chunk) :
         Len(asm.current_chunk[j]) > chunk_size_bytes
           => Len(asm.current_chunk) = 1
    /\ Admitted = Taken
    /\ (pc = "done" /\ Len(elems) = 1
          /\ Len(Dumps(elems[1])) > chunk_size_bytes)
         => /\ Len(asm.writes) = 1
            /\ asm.writes[1].data = <<Dumps(elems[1])>>

(* a finished run in which an oversized record was written alone between
   two other chunks *)
C25_Witness ==
  /\ pc = "done"
  /\ chunk_size_bytes > 0
  /\ Len(asm.writes) >= 3
  /\ Len(asm.writes[2].data) = 1
  /\ asm.writes[2].size > chunk_size_bytes
  /\ asm.writes[1].size <= chunk_size_bytes

(* C26: a chunk is closed only when the next record does not fit: for
   consecutive chunks k and k+1 the size of chunk k plus the size of the
   first record of chunk k+1 exceeds the budget, the chunk in progress
   counting as the chunk after the last written one; so a record that
   fills the budget exactly stays in its chunk. *)
C26_ClosedOnlyWhenFull ==
  /\ \A k \in 1..(Len(asm.writes) - 1) :
       asm.writes[k].size + Len(asm.writes[k + 1].data[1]) > chunk_size_bytes
  /\ (pc \in {"simple_loop", "flush"} /\ asm.writes # <<>>)
       => /\ asm.current_chunk # <<>>
          /\ asm.writes[Len(asm.writes)].size + Len(asm.current_chunk[1])
               > chunk_size_bytes

(* a finished run with a chunk of several records that fills the budget
   exactly, followed by another chunk *)
C26_Witness ==
  /\ pc = "done"
  /\ Len(asm.writes) >= 2
  /\ Len(asm.writes[1].data) >= 2
  /\ asm.writes[1].size = chunk_size_bytes

(* ------------------------- summary and aborts -------------------------- *)
(* C27: the summary is written at most once in a run, only when the input
   is exhausted and every chunk, the final one included, is written, with
   one chunk entry per written chunk; a run that raised a fatal error has
   written no summary. *)
C27_SummaryOnceAtEnd ==
  /\ [](summary # <<>> =>
          /\ pc = "done"
          /\ ij.next > Len(ij.events)
          /\ summary[1].chunks = asm.chunks
          /\ Len(summary[1].chunks) = Len(asm.writes)
          /\ asm.current_chunk # <<>> =>
               asm.writes[Len(asm.writes)].data = asm.current_chunk)
  /\ [](pc = "error" => summary = <<>>)
  /\ [][summary # <<>> => summary' = summary]_vars

(* a finished run that wrote chunks mid-run and at the end, and its
   summary *)
C27_Witness ==
  /\ pc = "done"
  /\ summary # <<>>
  /\ Len(asm.writes) >= 2
  /\ ij.next > Len(ij.events)

(* the event handled last was handed to _build_object_from_ijson_event *)
LastBuilt ==
  /\ ij.last # <<>>
  /\ ij.last[1].prefix # <<>>
  /\ ~(ij.last[1].event \in {"start_map", "end_map"} /\ NoDot(ij.last[1].prefix))

(* C28: path resolution never aborts the run: for every event of a
   well-formed array of objects, those of nested arrays included,
   _set_nested_value returns normally. *)
C28_PathNeverAborts ==
  LastBuilt =>
    ~BuildObject(ij.last[1].before, ij.last[1].prefix,
                 ij.last[1].event, ij.last[1].value).err

====
